---- MODULE Spec2Model ----
(***************************************************************************)
(* CrimeCast credential store (auth/database.py), session helpers          *)
(* (auth/auth_utils.py, auth/decorators.py) and the admin panel's delete   *)
(* action (pages/10_Admin_Panel.py) as a state machine.                    *)
(*                                                                         *)
(* The SQLite file is the shared state: the users table, the AUTOINCREMENT *)
(* counter of that table and the access_logs table.  Every UserDatabase    *)
(* method is an operator that maps the tables and the call's arguments to  *)
(* the new tables and the value the caller receives; an exception raised   *)
(* by a statement is an outcome of kind "raise" that the method's          *)
(* try/except turns into a (False, message) pair.                          *)
(***************************************************************************)
EXTENDS Integers, Sequences, FiniteSets, TLC

\* ----------------------------------------------------------------- bounds
MaxUsers == 2      \* AUTOINCREMENT ids handed out: 1..MaxUsers
MaxLog   == 2      \* rows of access_logs, when the store's methods are called
MaxPageLog == 4    \* rows of access_logs, when the pages run
MaxFaultLog == 1   \* rows of access_logs before the storage layer raises
MaxMissing == 2    \* expected features a request leaves out (or is left with)

\* ------------------------------------------------------------ value sets
None == "None"
Sessions   == {"s1", "s2"}
AdminEmail == "admin@crimecast.com"
Emails     == {AdminEmail, "a@b.com"}
Passwords  == {"admin123", "secret1"}
Names      == {"A", "B"}
Roles      == {"user", "admin"}
Salts      == {"salt1"}
Ids        == 1..MaxUsers
Times      == {1, 2}          \* what datetime.now() can read

\* The places of a method where the storage layer can raise: the
\* statement (connect/execute), the commit, the insert of log_action.
NoFault  == {"none"}
AnyFault == {"none", "db", "commit", "log"}

VARIABLES
    users,        \* users table: id -> row
    seq,          \* AUTOINCREMENT counter of users (largest id ever used)
    access_logs,  \* access_logs table, in insertion order
    lock,         \* connection holding SQLite's write lock, or None
    call,         \* per session: the create_user call in flight
    session,      \* per session: st.session_state (authenticated, user)
    last,         \* the last completed call: what was asked, what came back
    storage,      \* "healthy": never raises; "flaky": may raise;
                  \* "failed": has raised during the last call
    api           \* the CrimePredictorAPI object the pages hold

vars == <<users, seq, access_logs, lock, call, session, last, storage, api>>

\* The faults a call may meet.
F == IF storage = "flaky" THEN AnyFault ELSE NoFault

\* The arguments worth trying under fault f: a call whose first statement
\* raises ("db") has read none of its arguments, so one value stands for all.
Args(S, f) == IF f = "db" /\ S # {} THEN {CHOOSE x \in S : TRUE} ELSE S

\* ------------------------------------------------------ bcrypt (abstract)
\* bcrypt.hashpw(password, salt): the digest is a function of the password
\* and the salt, and the salt is stored with it.
HashPw(password, salt) == [salt |-> salt, digest |-> <<salt, password>>]

\* The password hashed again with a salt of its own (gensalt) in place of
\* the stored one.
CheckPwFreshSalt(password, hashed) == HashPw(password, "salt2") = hashed

\* bcrypt.checkpw(password, hashed): re-hash with the stored salt, compare.
CheckPw(password, hashed) == HashPw(password, hashed.salt) = hashed

\* ------------------------------------------------------ call outcomes
\* A method hands back (ok, message) or (True, user dict), or raises.
NULL   == -1       \* a NULL timestamp
NoUser == [id |-> 0, email |-> None, name |-> None, role |-> None,
           last_login |-> NULL]
Return(ok, msg)  == [kind |-> "return", ok |-> ok, msg |-> msg, user |-> NoUser]
ReturnUser(user) == [kind |-> "return", ok |-> TRUE, msg |-> None, user |-> user]
Raise(exc)       == [kind |-> "raise", ok |-> FALSE, msg |-> exc, user |-> NoUser]

\* A method without its except clause: what was raised reaches the caller.
Uncaught(out, msg) == out

\* except Exception as e: return False, f"<msg>: {str(e)}"
ExceptException(out, msg) ==
    IF out.kind = "raise" THEN Return(FALSE, msg) ELSE out

\* except sqlite3.IntegrityError / except Exception of create_user
create_user_except(out) ==
    IF out.kind = "raise" /\ out.msg = "IntegrityError"
    THEN Return(FALSE, "Email already exists")
    ELSE ExceptException(out, "Error creating user")

\* ------------------------------------------------------------ the tables
\* A row of users as INSERT INTO users (...) makes it: role and is_active
\* take the column defaults, last_login is NULL.  created_at takes
\* CURRENT_TIMESTAMP: it is read by get_all_users only, and the clock
\* stands at FirstTime except where ListCreateUser reads it.
\* (phone, address and profile_picture are carried like name:
\* written by INSERT and by update_user, read by nothing; the row keeps
\* name as the one such column.)
FirstTime == CHOOSE t \in Times : \A u \in Times : t <= u

NewRow(id, email, hashed, name, role) ==
    [id |-> id, email |-> email, password |-> hashed, name |-> name,
     role |-> role, is_active |-> TRUE, created_at |-> FirstTime,
     last_login |-> NULL]

NoRow == [id |-> 0, email |-> None, password |-> HashPw(None, None),
          name |-> None, role |-> None, is_active |-> FALSE,
          created_at |-> NULL, last_login |-> NULL]

\* A users table whose email column carries no UNIQUE index.
NoUniqueIndex(us, email) == FALSE

\* email TEXT UNIQUE NOT NULL: the rows an INSERT of this email collides with
EmailTaken(us, email) == \E i \in DOMAIN us : us[i].email = email

\* f with the row of key id added / the rows of key id removed
Put(us, id, row) == [i \in DOMAIN us \cup {id} |-> IF i = id THEN row ELSE us[i]]
Drop(us, id)     == [i \in DOMAIN us \ {id} |-> us[i]]

\* UPDATE users SET <field> = v WHERE id = ?  (no such row: nothing changes)
SetField(us, id, field, v) ==
    [i \in DOMAIN us |-> IF i = id THEN [us[i] EXCEPT ![field] = v] ELSE us[i]]

\* What the store hands back of one call: the tables after it and the
\* outcome the caller sees.
Result(us, sq, lg, out) == [users |-> us, seq |-> sq, logs |-> lg, out |-> out]

\* ------------------------------------------------------------ log_action
\* A log_action without its try/except: a failed insert reaches the caller.
log_action_raising(lg, user_id, action, fails) ==
    IF fails
    THEN [logs |-> lg, raised |-> TRUE]
    ELSE [logs |-> Append(lg, [user_id |-> user_id, action |-> action]),
          raised |-> FALSE]

\* INSERT INTO access_logs (user_id, action, page, ip_address); an exception
\* of the insert is printed and dropped, so the caller never sees it.
log_action(lg, user_id, action, fails) ==
    IF fails
    THEN [logs |-> lg, raised |-> FALSE]
    ELSE [logs |-> Append(lg, [user_id |-> user_id, action |-> action]),
          raised |-> FALSE]

\* A method that returns without calling log_action.
ReturnWithoutLog(us, sq, lg, user_id, action, f, msg) ==
    Result(us, sq, lg, Return(TRUE, msg))

\* The tail of every mutating method: log_action(...) then return True, msg.
LogAndReturn(us, sq, lg, user_id, action, f, msg) ==
    LET l == log_action(lg, user_id, action, f = "log")
    IN  Result(us, sq, l.logs,
               IF l.raised THEN Raise("Exception") ELSE Return(TRUE, msg))

\* ----------------------------------------------------------- create_user
\* id INTEGER PRIMARY KEY without AUTOINCREMENT: the new row takes the
\* largest id in the table plus one, so the id of a deleted last row is
\* handed out again.
InsertUserRowid(us, sq, email, hashed, name, role, f) ==
    IF f = "db" THEN [out |-> Raise("OperationalError"), row |-> NoRow]
    ELSE IF \E i \in DOMAIN us : us[i].email = email
    THEN [out |-> Raise("IntegrityError"), row |-> NoRow]
    ELSE [out |-> Return(TRUE, None),
          row |-> NewRow(IF DOMAIN us = {} THEN 1
                         ELSE (CHOOSE i \in DOMAIN us :
                                 \A j \in DOMAIN us : j <= i) + 1,
                         email, hashed, name, role)]

\* INSERT OR REPLACE in place of INSERT: a row of the same email gives way
\* to the new one.
InsertOrReplaceUser(us, sq, email, hashed, name, role, f) ==
    IF f = "db" THEN [out |-> Raise("OperationalError"), row |-> NoRow]
    ELSE IF \E i \in DOMAIN us : us[i].email = email
    THEN [out |-> Return(TRUE, None),
          row |-> NewRow(CHOOSE i \in DOMAIN us : us[i].email = email,
                         email, hashed, name, role)]
    ELSE [out |-> Return(TRUE, None),
          row |-> NewRow(sq + 1, email, hashed, name, role)]

\* cursor.execute(INSERT INTO users ...): the statement raises, or the
\* UNIQUE constraint raises IntegrityError, or the row is built with the
\* next AUTOINCREMENT id.
InsertUser(us, sq, email, hashed, name, role, f) ==
    IF f = "db" THEN [out |-> Raise("OperationalError"), row |-> NoRow]
    ELSE IF EmailTaken(us, email)
    THEN [out |-> Raise("IntegrityError"), row |-> NoRow]
    ELSE [out |-> Return(TRUE, None),
          row |-> NewRow(sq + 1, email, hashed, name, role)]

\* create_user, start to end.
create_user(us, sq, lg, email, password, salt, name, role, f) ==
    LET ins == InsertUser(us, sq, email, HashPw(password, salt), name,
                          role, f)
    IN  IF ins.out.kind = "raise"
        THEN Result(us, sq, lg, create_user_except(ins.out))
        ELSE IF f = "commit"
        THEN Result(us, sq, lg, create_user_except(Raise("OperationalError")))
        ELSE LET r == LogAndReturn(Put(us, ins.row.id, ins.row), ins.row.id,
                                   lg, ins.row.id, "USER_SIGNUP", f,
                                   "User created successfully")
             IN  [r EXCEPT !.out = create_user_except(r.out)]

\* ----------------------------------------------------- authenticate_user
\* The dict authenticate_user returns, built from the row it selected.
UserRecord(row) ==
    [id |-> row.id, email |-> row.email, name |-> row.name,
     role |-> row.role, last_login |-> row.last_login]

\* SELECT ... FROM users WHERE email = ? AND is_active = 1; fetchone()
SelectActive(us, email) ==
    {i \in DOMAIN us : us[i].email = email /\ us[i].is_active}

\* An authenticate_user that leaves the timestamp alone.
update_last_login_skipped(us, id, t) == us

\* UPDATE users SET last_login = ? WHERE id = ?   (datetime.now())
update_last_login(us, id, t) == SetField(us, id, "last_login", t)

\* A failure value that tells an unknown email from a rejected login.
InvalidCredentialsTelling(found) ==
    Return(FALSE, IF found = {} THEN "Email not found" ELSE "Wrong password")

\* else: return False, "Invalid email or password"
InvalidCredentials(found) == Return(FALSE, "Invalid email or password")

\* authenticate_user stamping the account it found before it checks the
\* password.
authenticate_user_stamping_first(us, sq, lg, t, email, password, f) ==
    LET found == SelectActive(us, email)
    IN  IF f = "none" /\ found # {}
        THEN LET user == us[CHOOSE i \in found : TRUE]
                 l == log_action(lg, user.id, "USER_LOGIN", FALSE)
             IN  Result(update_last_login(us, user.id, t), sq, l.logs,
                        IF CheckPw(password, user.password)
                        THEN ReturnUser(UserRecord(user))
                        ELSE InvalidCredentials(found))
        ELSE Result(us, sq, lg, InvalidCredentials(found))

authenticate_user(us, sq, lg, t, email, password, f) ==
    IF f = "db"
    THEN Result(us, sq, lg,
                ExceptException(Raise("OperationalError"), "Authentication error"))
    ELSE LET found == SelectActive(us, email)
         IN  IF found # {} /\ CheckPw(password, us[CHOOSE i \in found : TRUE].password)
             THEN LET user == us[CHOOSE i \in found : TRUE]
                  IN  IF f = "commit"
                      THEN Result(us, sq, lg,
                                  ExceptException(Raise("OperationalError"),
                                                  "Authentication error"))
                      ELSE LET l == log_action(lg, user.id, "USER_LOGIN", f = "log")
                           IN  Result(update_last_login(us, user.id, t), sq, l.logs,
                                      ExceptException(
                                          IF l.raised THEN Raise("Exception")
                                          ELSE ReturnUser(UserRecord(user)),
                                          "Authentication error"))
             ELSE Result(us, sq, lg, InvalidCredentials(found))

\* ----------------------------------------------------------- update_user
\* Only the arguments that are not None are written; with none given the
\* method returns (False, "No fields to update") and touches nothing.
update_user(us, sq, lg, user_id, name, f) ==
    IF f = "db"
    THEN Result(us, sq, lg,
                ExceptException(Raise("OperationalError"), "Error updating profile"))
    ELSE IF name = None
    THEN Result(us, sq, lg, Return(FALSE, "No fields to update"))
    ELSE IF f = "commit"
    THEN Result(us, sq, lg,
                ExceptException(Raise("OperationalError"), "Error updating profile"))
    ELSE LET r == LogAndReturn(SetField(us, user_id, "name", name), sq, lg,
                               user_id, "PROFILE_UPDATE", f,
                               "Profile updated successfully")
         IN  [r EXCEPT !.out = ExceptException(r.out, "Error updating profile")]

\* ----------------------------------------------------------- delete_user
\* A delete that takes the deleted account's audit rows with it
\* (ON DELETE CASCADE on access_logs.user_id).
delete_user_cascade(us, sq, lg, user_id, admin_id, f) ==
    IF f \in {"db", "commit"}
    THEN Result(us, sq, lg, Return(FALSE, "Error deleting user"))
    ELSE Result(Drop(us, user_id), sq,
                Append(SelectSeq(lg, LAMBDA e : e.user_id # user_id),
                       [user_id |-> admin_id, action |-> "USER_DELETED"]),
                Return(TRUE, "User deleted successfully"))

\* DELETE FROM users WHERE id = ?; the audit row carries admin_id.
delete_user(us, sq, lg, user_id, admin_id, f) ==
    IF f \in {"db", "commit"}
    THEN Result(us, sq, lg,
                ExceptException(Raise("OperationalError"), "Error deleting user"))
    ELSE LET r == LogAndReturn(Drop(us, user_id), sq, lg, admin_id,
                               "USER_DELETED", f, "User deleted successfully")
         IN  [r EXCEPT !.out = ExceptException(r.out, "Error deleting user")]

\* ------------------------------------------------ toggle_user_active_status
toggle_user_active_status(us, sq, lg, user_id, is_active, f) ==
    IF f \in {"db", "commit"}
    THEN Result(us, sq, lg,
                ExceptException(Raise("OperationalError"), "Error updating user status"))
    ELSE LET r == LogAndReturn(SetField(us, user_id, "is_active", is_active),
                               sq, lg, user_id, "USER_STATUS_CHANGE", f,
                               IF is_active THEN "User activated successfully"
                               ELSE "User deactivated successfully")
         IN  [r EXCEPT !.out = ExceptException(r.out, "Error updating user status")]

\* ----------------------------------------------------- change_user_password
\* A change_user_password whose UPDATE writes no row.
change_user_password_not_written(us, sq, lg, user_id, new_password, salt, f) ==
    LogAndReturn(us, sq, lg, user_id, "PASSWORD_CHANGE", f,
                 "Password changed successfully")

change_user_password(us, sq, lg, user_id, new_password, salt, f) ==
    IF f \in {"db", "commit"}
    THEN Result(us, sq, lg,
                ExceptException(Raise("OperationalError"), "Error changing password"))
    ELSE LET r == LogAndReturn(SetField(us, user_id, "password",
                                        HashPw(new_password, salt)),
                               sq, lg, user_id, "PASSWORD_CHANGE", f,
                               "Password changed successfully")
         IN  [r EXCEPT !.out = ExceptException(r.out, "Error changing password")]

\* ------------------------------------------------------------ the session
\* initialize_session_state: authenticated False, user None
NoSession == [authenticated |-> FALSE, user |-> NoUser]

\* An is_authenticated that looks the account up again on every check.
is_authenticated_rereading(ss) ==
    /\ ss.authenticated
    /\ \E i \in DOMAIN users : users[i].id = ss.user.id /\ users[i].is_active

is_authenticated(ss) == ss.authenticated
is_admin(ss) == is_authenticated(ss) /\ ss.user.role = "admin"

\* auth/decorators.py: the wrapped page body runs only past these checks
login_required(ss) == is_authenticated(ss)

\* An admin_required that asks for a login only.
admin_required_any_user(ss) == is_authenticated(ss)

admin_required(ss) == is_authenticated(ss) /\ is_admin(ss)

\* ------------------------------------------------------ CrimePredictorAPI
\* self.expected_features: the order of the model's columns.
expected_features ==
    <<"Latitude", "Longitude", "Beat", "District", "Ward",
      "Community Area", "Hour", "DayOfWeek", "Month", "Year",
      "Location_Description_Clean", "TimeOfDay", "Season">>

\* The features create_feature_array hands to an encoder.
CategoricalFeatures == {"Location_Description_Clean", "TimeOfDay", "Season"}

Features == {expected_features[i] : i \in 1..Len(expected_features)}

Position(feature) ==
    CHOOSE i \in 1..Len(expected_features) : expected_features[i] = feature

\* Python values: a number, a str, None.  One record shape for all three,
\* so that any two of them can be compared.
Num(n) == [kind |-> "num", num |-> n, text |-> ""]
Str(t) == [kind |-> "str", num |-> 0, text |-> t]
PyNone == [kind |-> "none", num |-> 0, text |-> ""]

\* The outcome of a step that may raise: the exception, or None and a value.
Ok(v)       == [exc |-> None, value |-> v]
Raised(exc) == [exc |-> exc, value |-> Num(0)]

\* LabelEncoder.classes_, as fit_transform left them: sorted.
classes_(feature) ==
    CASE feature = "Location_Description_Clean" -> <<"ALLEY", "STREET">>
      [] feature = "TimeOfDay" -> <<"Morning", "Night">>
      [] OTHER -> <<"Summer", "Winter">>

\* LabelEncoder.transform([value])[0]: the index of value among classes_,
\* or ValueError (y contains previously unseen labels).
transform(classes, value) ==
    IF value.kind = "str" /\ \E k \in 1..Len(classes) : classes[k] = value.text
    THEN Ok(Num((CHOOSE k \in 1..Len(classes) : classes[k] = value.text) - 1))
    ELSE Raised("ValueError")

\* An _encode_categorical_value without its except clause.
encode_categorical_value_strict(a, feature_name, value) ==
    IF feature_name \in DOMAIN a.label_encoders
    THEN transform(a.label_encoders[feature_name], value)
    ELSE Ok(value)

\* _encode_categorical_value: the encoder's code, 0 for a value the encoder
\* has not seen, the value itself where there is no encoder.
encode_categorical_value(a, feature_name, value) ==
    IF feature_name \in DOMAIN a.label_encoders
    THEN LET t == transform(a.label_encoders[feature_name], value)
         IN  IF t.exc = "ValueError" THEN Ok(Num(0)) ELSE t
    ELSE Ok(value)

\* float(value): the number, the number a str spells, or an exception.
float(value) ==
    CASE value.kind = "num" -> Ok(Num(value.num))
      [] value.kind = "str" /\ value.text = "7" -> Ok(Num(7))
      [] value.kind = "str" -> Raised("ValueError")
      [] OTHER -> Raised("TypeError")

\* features_dict, a dict: its items in insertion order, keys distinct.
Item(k, v) == [key |-> k, value |-> v]
Dict(items) == [type |-> "dict", items |-> items]
NotADict == [type |-> "NoneType", items |-> <<>>]

Has(features_dict, k) ==
    \E i \in 1..Len(features_dict.items) : features_dict.items[i].key = k

Get(features_dict, k) ==
    features_dict.items[CHOOSE i \in 1..Len(features_dict.items) :
                          features_dict.items[i].key = k].value

\* A loop body that takes the i-th value of the dict for the i-th feature.
FeatureSlotByPosition(a, features_dict, feature) ==
    IF Position(feature) <= Len(features_dict.items)
    THEN LET value == features_dict.items[Position(feature)].value
         IN  IF feature \in CategoricalFeatures
             THEN encode_categorical_value(a, feature, value)
             ELSE LET x == float(value)
                  IN  IF x.exc = None THEN x ELSE Ok(Num(0))
    ELSE Ok(Num(0))

\* A loop body that reads features_dict[feature] without asking whether
\* the key is there.
FeatureSlotNoDefault(a, features_dict, feature) ==
    IF Has(features_dict, feature)
    THEN LET value == Get(features_dict, feature)
         IN  IF feature \in CategoricalFeatures
             THEN encode_categorical_value(a, feature, value)
             ELSE LET x == float(value)
                  IN  IF x.exc = None THEN x ELSE Ok(Num(0))
    ELSE Raised("KeyError")

\* The body of create_feature_array's loop: what is appended for feature.
FeatureSlot(a, features_dict, feature) ==
    IF Has(features_dict, feature)
    THEN LET value == Get(features_dict, feature)
         IN  IF feature \in CategoricalFeatures
             THEN encode_categorical_value(a, feature, value)
             ELSE LET x == float(value)
                  IN  IF x.exc = None THEN x ELSE Ok(Num(0))
    ELSE Ok(Num(0))

\* create_feature_array: _validate_input_features reads features_dict.keys(),
\* then one slot per expected feature, in that order; the first exception
\* of a slot ends the loop.
create_feature_array(a, features_dict) ==
    IF features_dict.type # "dict"
    THEN [exc |-> "AttributeError", value |-> <<>>]
    ELSE LET slots == [i \in 1..Len(a.expected_features) |->
                         FeatureSlot(a, features_dict, a.expected_features[i])]
             bad == {i \in 1..Len(slots) : slots[i].exc # None}
         IN  IF bad = {}
             THEN [exc |-> None,
                   value |-> [i \in 1..Len(slots) |-> slots[i].value]]
             ELSE [exc |-> slots[CHOOSE i \in bad :
                                   \A j \in bad : i <= j].exc,
                   value |-> <<>>]

\* check_array, in the scaler and in the classifier: ValueError for an
\* array that holds a str or has another number of columns than was fitted.
Accepts(n_features_in_, X) ==
    /\ Len(X) = n_features_in_
    /\ \A i \in 1..Len(X) : X[i].kind = "num"

\* self.feature_scaler.transform: column i less the mean fitted for it.
scaler_transform(scaler, X) ==
    IF Accepts(scaler.n_features_in_, X)
    THEN [exc |-> None,
          value |-> [i \in 1..Len(X) |-> Num(X[i].num - scaler.mean_[i])]]
    ELSE [exc |-> "ValueError", value |-> <<>>]

\* _get_risk_level, over probabilities in hundredths.
HighThreshold   == 70
MediumThreshold == 40
Probabilities   == 0..100

\* A _get_risk_level that takes the threshold itself into the higher tier.
get_risk_level_inclusive(probability) ==
    IF probability >= HighThreshold THEN "High"
    ELSE IF probability >= MediumThreshold THEN "Medium"
    ELSE "Low"

\* A _get_risk_level with the Medium bound of the page's own label, 0.3.
get_risk_level_of_page(probability) ==
    IF probability > HighThreshold THEN "High"
    ELSE IF probability > 30 THEN "Medium"
    ELSE "Low"

get_risk_level(probability) ==
    IF probability > HighThreshold THEN "High"
    ELSE IF probability > MediumThreshold THEN "Medium"
    ELSE "Low"

\* The two dicts predict returns.
Success(prediction, probability, risk_level, features_used, feature_values) ==
    [success |-> TRUE, prediction |-> prediction, probability |-> probability,
     risk_level |-> risk_level, features_used |-> features_used,
     feature_values |-> feature_values]

Error(e) == [success |-> FALSE, error |-> e]

\* A predict without try and except: what is raised leaves predict.
predict_uncaught(r) ==
    IF r.exc # None THEN [raised |-> r.exc] ELSE r.value

\* except Exception as e: return {'error': str(e), 'success': False}
predict_except(r) ==
    IF r.exc # None THEN Error(r.exc) ELSE r.value

\* predict, start to end.  probability and prediction are what
\* self.model.predict_proba and self.model.predict answer for the array.
predict(a, features_dict, probability, prediction) ==
    LET built  == create_feature_array(a, features_dict)
        scaled == IF built.exc # None \/ ~a.feature_scaler.loaded THEN built
                  ELSE scaler_transform(a.feature_scaler, built.value)
    IN  predict_except(
            IF scaled.exc # None THEN scaled
            ELSE IF ~Accepts(a.model.n_features_in_, scaled.value)
            THEN [exc |-> "ValueError", value |-> <<>>]
            ELSE [exc |-> None,
                  value |-> Success(prediction, probability,
                                    get_risk_level(probability),
                                    a.expected_features, scaled.value)])

\* The object __init__ leaves: the artifacts joblib loaded.  Encoders are
\* there for the categorical columns the training data had; no scaler is
\* loaded without a path; a model of another training run counts other
\* columns.
NoScaler == [loaded |-> FALSE, n_features_in_ |-> 0, mean_ |-> <<>>]

FittedScaler ==
    [loaded |-> TRUE, n_features_in_ |-> Len(expected_features),
     mean_ |-> [i \in 1..Len(expected_features) |-> 1]]

Api(n, scaler, encoded) ==
    [model |-> [n_features_in_ |-> n], feature_scaler |-> scaler,
     label_encoders |-> [feature \in encoded |-> classes_(feature)],
     expected_features |-> expected_features]

Apis ==
    {Api(Len(expected_features), scaler, encoded) :
        scaler \in {NoScaler, FittedScaler},
        encoded \in SUBSET CategoricalFeatures}
      \cup {Api(Len(expected_features) - 1, scaler, CategoricalFeatures) :
              scaler \in {NoScaler, FittedScaler}}

\* What load_models() of the pages builds from models/.
DeployedApi == Api(Len(expected_features), FittedScaler, CategoricalFeatures)

\* The dicts the callers pass: the form's values, keys left out, keys in
\* another order, a key the model does not know, values of other types.
TypicalValue(feature) ==
    IF feature \in CategoricalFeatures
    THEN Str(classes_(feature)[Len(classes_(feature))])
    ELSE Num(Position(feature) + 1)

OddValues(feature) ==
    IF feature \in CategoricalFeatures
    THEN {Str("UNSEEN")}
    ELSE {Str("7"), Str("abc"), PyNone}

Reverse(q) == [i \in 1..Len(q) |-> q[Len(q) + 1 - i]]

Request(present, odd, reversed, extra) ==
    LET Present(k) == k \in present
        keys   == SelectSeq(expected_features, Present)
        items0 == [i \in 1..Len(keys) |->
                     Item(keys[i], IF keys[i] \in DOMAIN odd THEN odd[keys[i]]
                                   ELSE TypicalValue(keys[i]))]
        items1 == IF reversed THEN Reverse(items0) ELSE items0
    IN  Dict(IF extra THEN <<Item("Arrest", Num(1))>> \o items1 ELSE items1)

PresentSets ==
    {present \in SUBSET Features :
        \/ Cardinality(Features \ present) <= MaxMissing
        \/ Cardinality(present) <= MaxMissing}

Requests ==
    {NotADict}
      \cup {Request(present, <<>>, reversed, extra) :
              present \in PresentSets, reversed \in BOOLEAN, extra \in BOOLEAN}
      \cup UNION {UNION {{Request(present, [k \in {feature} |-> v], FALSE, FALSE) :
                            present \in {p \in PresentSets :
                                           /\ feature \in p
                                           /\ Cardinality(Features \ p) <= 1}} :
                         v \in OddValues(feature)} :
                  feature \in Features}

\* ------------------------------------------------------------ call record
\* What `last` keeps of a completed call.
Call(op, f, out) == [op |-> op, fault |-> f, out |-> out]

NoCall == Call("init", "none", Return(TRUE, None))

\* What `last` keeps of a page run by session s.
PageCall(op, s, out) == [op |-> op, fault |-> "none", args |-> s, out |-> out]

\* What `last` keeps of a call of the predictor: its argument too.
PredictorCall(op, args, out) ==
    [op |-> op, fault |-> "none", args |-> args, out |-> out]

\* The create_user call a session has in flight (SpecRace), or IdleCall.
IdleCall == [pc |-> "idle", email |-> None, row |-> NoRow, out |-> Return(TRUE, None)]

\* ------------------------------------------------------------------ Init
\* init_database: the tables are created if they are not there, and the
\* default admin is inserted if no row carries its email.  It runs whenever
\* the module is loaded (user_db = UserDatabase()).
init_database(us, sq, salt) ==
    IF EmailTaken(us, AdminEmail)
    THEN Result(us, sq, <<>>, Return(TRUE, None))
    ELSE Result(Put(us, sq + 1, NewRow(sq + 1, AdminEmail,
                                       HashPw("admin123", salt),
                                       "System Admin", "admin")),
                sq + 1, <<>>, Return(TRUE, None))

\* The store as the first init_database leaves it.
InitTables ==
    /\ \E salt \in Salts :
         /\ users = init_database(<<>>, 0, salt).users
         /\ seq = init_database(<<>>, 0, salt).seq
    /\ access_logs = <<>>
    /\ lock = None
    /\ call = [s \in Sessions |-> IdleCall]
    /\ session = [s \in Sessions |-> NoSession]

InitStore ==
    /\ InitTables
    /\ last = NoCall
    /\ api = DeployedApi

Init == InitStore /\ storage = "healthy"

\* A predictor over any artifacts, and a dict a caller is about to pass.
InitPredict ==
    /\ InitTables
    /\ storage = "healthy"
    /\ api \in Apis
    /\ last \in {PredictorCall("request", features_dict, Error(None)) :
                   features_dict \in Requests}

\* A probability the page is about to show.
InitRisk ==
    /\ InitTables
    /\ storage = "healthy"
    /\ api = DeployedApi
    /\ last \in {PredictorCall("request", probability, "") :
                   probability \in Probabilities}

InitFaults == InitStore /\ storage = "flaky"

\* The tables after a call that met fault f, within the bounds of the
\* model.  A behaviour is followed up to its first call that meets a
\* storage exception.
\* (A row whose insert failed counts towards the bound like a written one.)
StoreUpTo(cap, r, f) ==
    /\ storage # "failed"
    /\ r.seq <= MaxUsers
    /\ Len(r.logs) + (IF f = "log" /\ r.out.ok THEN 1 ELSE 0) <= cap
    /\ users' = r.users
    /\ seq' = r.seq
    /\ access_logs' = r.logs
    /\ storage' = IF f = "none" THEN storage ELSE "failed"
    /\ UNCHANGED api

Store(r, f)     == StoreUpTo(IF storage = "flaky" THEN MaxFaultLog ELSE MaxLog,
                             r, f)
PageStore(r, f) == StoreUpTo(MaxPageLog, r, f)

\* ------------------------------------------------- the store's methods
\* The module is loaded again over the tables as they are.
InitDatabase ==
    \E salt \in Salts :
        LET r == init_database(users, seq, salt)
        IN  /\ Store([r EXCEPT !.logs = access_logs], "none")
            /\ last' = Call("init_database", "none", r.out)
            /\ UNCHANGED <<lock, call, session>>

\* Each is one call of the method by any caller, with any arguments; F is
\* the set of places where the storage layer may raise during the call.
CreateUser ==
    \E f \in F : \E email \in Args(Emails, f), password \in Args(Passwords, f),
       salt \in Salts, name \in Args(Names, f), role \in Args(Roles, f) :
        LET r == create_user(users, seq, access_logs, email, password,
                             salt, name, role, f)
        IN  /\ Store(r, f)
            /\ last' = Call("create_user", f, r.out)
            /\ UNCHANGED <<lock, call, session>>

AuthenticateUser ==
    \E f \in F : \E email \in Args(Emails, f), password \in Args(Passwords, f),
       t \in Args(Times, f) :
        LET r == authenticate_user(users, seq, access_logs, t, email,
                                   password, f)
        IN  /\ Store(r, f)
            /\ last' = Call("authenticate_user", f, r.out)
            /\ UNCHANGED <<lock, call, session>>

UpdateUser ==
    \E f \in F : \E user_id \in Args(Ids, f), name \in Args(Names \cup {None}, f) :
        LET r == update_user(users, seq, access_logs, user_id, name, f)
        IN  /\ Store(r, f)
            /\ last' = Call("update_user", f, r.out)
            /\ UNCHANGED <<lock, call, session>>

DeleteUser ==
    \E f \in F : \E user_id \in Args(Ids, f), admin_id \in Args(DOMAIN users, f) :
        LET r == delete_user(users, seq, access_logs, user_id, admin_id, f)
        IN  /\ Store(r, f)
            /\ last' = Call("delete_user", f, r.out)
            /\ UNCHANGED <<lock, call, session>>

ToggleUserActiveStatus ==
    \E f \in F : \E user_id \in Args(Ids, f), is_active \in Args(BOOLEAN, f) :
        LET r == toggle_user_active_status(users, seq, access_logs, user_id,
                                           is_active, f)
        IN  /\ Store(r, f)
            /\ last' = Call("toggle_user_active_status", f, r.out)
            /\ UNCHANGED <<lock, call, session>>

ChangeUserPassword ==
    \E f \in F : \E user_id \in Args(Ids, f), new_password \in Args(Passwords, f),
       salt \in Salts :
        LET r == change_user_password(users, seq, access_logs, user_id,
                                      new_password, salt, f)
        IN  /\ Store(r, f)
            /\ last' = Call("change_user_password", f, r.out)
            /\ UNCHANGED <<lock, call, session>>

\* ---------------------------------------------------------- get_all_users
\* What get_all_users returns: the list cursor.fetchall() gave, or [].
ReturnRows(rows) ==
    [kind |-> "return", ok |-> TRUE, msg |-> None, user |-> NoUser,
     rows |-> rows]

\* SELECT id, email, name, phone, address, role, is_active, created_at,
\* last_login: one tuple of the list.
UserTuple(row) ==
    [id |-> row.id, email |-> row.email, name |-> row.name,
     role |-> row.role, is_active |-> row.is_active,
     created_at |-> row.created_at, last_login |-> row.last_login]

\* FROM users ORDER BY created_at DESC: the ids, latest created_at first;
\* rows of one created_at come in the order the table is scanned, by id.
RECURSIVE OrderByCreatedAtDesc(_, _)
OrderByCreatedAtDesc(us, ids) ==
    IF ids = {} THEN <<>>
    ELSE LET first == CHOOSE i \in ids : \A j \in ids :
                          \/ us[i].created_at > us[j].created_at
                          \/ us[i].created_at = us[j].created_at /\ i <= j
         IN  <<first>> \o OrderByCreatedAtDesc(us, ids \ {first})

\* A get_all_users that records the call in access_logs, as the methods
\* that write do.
get_all_users_logged(us, sq, lg, f) ==
    LET ids == OrderByCreatedAtDesc(us, DOMAIN us)
    IN  Result(us, sq, Append(lg, [user_id |-> 0, action |-> "USERS_LISTED"]),
               ReturnRows([k \in 1..Len(ids) |-> UserTuple(us[ids[k]])]))

\* get_all_users, start to end: a SELECT and no commit; whatever is raised
\* is printed and [] is returned.
get_all_users(us, sq, lg, f) ==
    IF f = "db" THEN Result(us, sq, lg, ReturnRows(<<>>))
    ELSE LET ids == OrderByCreatedAtDesc(us, DOMAIN us)
         IN  Result(us, sq, lg,
                    ReturnRows([k \in 1..Len(ids) |-> UserTuple(us[ids[k]])]))

GetAllUsers ==
    \E f \in F :
        LET r == get_all_users(users, seq, access_logs, f)
        IN  /\ Store(r, f)
            /\ last' = Call("get_all_users", f, r.out)
            /\ UNCHANGED <<lock, call, session>>

\* create_user while the clock reads t: the row it inserts takes t as its
\* created_at.
ListCreateUser ==
    \E f \in F : \E email \in Args(Emails, f), password \in Args(Passwords, f),
       salt \in Salts, name \in Args(Names, f), role \in Args(Roles, f),
       t \in Args(Times, f) :
        LET c == create_user(users, seq, access_logs, email, password,
                             salt, name, role, f)
            r == IF c.seq \in DOMAIN c.users \ DOMAIN users
                 THEN [c EXCEPT !.users = SetField(c.users, c.seq,
                                                   "created_at", t)]
                 ELSE c
        IN  /\ Store(r, f)
            /\ last' = Call("create_user", f, r.out)
            /\ UNCHANGED <<lock, call, session>>

\* ------------------------------------------------------------ the pages
\* pages/2_Sign_Up.py: the form calls create_user with the default role.
SignUp(s) ==
    /\ \E email \in Emails, password \in Passwords, salt \in Salts,
          name \in Names, f \in F :
        LET r == create_user(users, seq, access_logs, email, password,
                             salt, name, "user", f)
        IN  /\ PageStore(r, f)
            /\ last' = Call("sign_up", f, r.out)
            /\ UNCHANGED <<lock, call, session>>

\* login_user, as far as the store goes: authenticate_user under fault f,
\* and on success a log_action of its own under fault g.
\* st.session_state after login_user, from the answer of authenticate_user.
\* This one raises the flag and forgets to store the record.
login_session_flag_only(ss, out) ==
    IF out.ok THEN [ss EXCEPT !.authenticated = TRUE] ELSE ss

login_session(ss, out) ==
    IF out.ok THEN [authenticated |-> TRUE, user |-> out.user] ELSE ss

login_user(us, sq, lg, t, email, password, f, g) ==
    LET a == authenticate_user(us, sq, lg, t, email, password, f)
    IN  IF a.out.ok
        THEN [a EXCEPT !.logs = log_action(a.logs, a.out.user.id, "USER_LOGIN",
                                           g = "log").logs]
        ELSE a

\* pages/1_Login.py -> login_user: authenticate_user, then on success the
\* session is filled and log_action writes a second USER_LOGIN row.
\* The page shows the form only to a session that is not authenticated.
Login(s) ==
    /\ ~is_authenticated(session[s])
    /\ \E email \in Emails, password \in Passwords, t \in Times, f \in F,
          g \in F \cap {"none", "log"} :
        LET r == login_user(users, seq, access_logs, t, email, password, f, g)
        IN  /\ PageStore(r, IF f = "none" /\ r.out.ok THEN g ELSE f)
            /\ session' = [session EXCEPT ![s] = login_session(session[s], r.out)]
            /\ last' = Call("login_user", f, r.out)
            /\ UNCHANGED <<lock, call>>

\* pages/7_Profile.py -> logout_user
Logout(s) ==
    /\ login_required(session[s])
    /\ \E g \in F \cap {"none", "log"} :
        LET l == IF session[s].authenticated /\ session[s].user # NoUser
                 THEN log_action(access_logs, session[s].user.id,
                                 "USER_LOGOUT", g = "log")
                 ELSE [logs |-> access_logs, raised |-> FALSE]
        IN  /\ PageStore(Result(users, seq, l.logs, Return(TRUE, None)), g)
            /\ session' = [session EXCEPT ![s] = NoSession]
            /\ last' = Call("logout_user", g, Return(TRUE, None))
            /\ UNCHANGED <<lock, call>>

\* pages/7_Profile.py, "Update Profile": update_user on the id the session
\* holds; on success the stored record takes the new name in place.
UpdateProfile(s) ==
    /\ is_authenticated(session[s])
    /\ \E name \in Names, f \in F :
        LET r == update_user(users, seq, access_logs, session[s].user.id,
                             name, f)
        IN  /\ PageStore(r, f)
            /\ session' = IF r.out.ok
                          THEN [session EXCEPT ![s].user.name = name]
                          ELSE session
            /\ last' = Call("update_profile", f, r.out)
            /\ UNCHANGED <<lock, call>>

\* The panel without its check of the selected id.
panel_delete_unguarded(us, sq, lg, selected, current, f) ==
    delete_user(us, sq, lg, selected, current, f)

\* pages/10_Admin_Panel.py, "Delete User" -> "Confirm Delete": picking
\* oneself is refused before the store is called.
panel_delete(us, sq, lg, selected, current, f) ==
    IF selected = current
    THEN Result(us, sq, lg, Return(FALSE, "You cannot delete your own account!"))
    ELSE delete_user(us, sq, lg, selected, current, f)

\* The user to delete is picked from get_all_users().
PanelDeleteUser(s) ==
    /\ admin_required(session[s])
    /\ \E selected \in DOMAIN users, f \in F :
        LET r == panel_delete(users, seq, access_logs, selected,
                              session[s].user.id, f)
        IN  /\ PageStore(r, f)
            /\ last' = Call("panel_delete_user", f, r.out)
            /\ UNCHANGED <<lock, call, session>>

\* "Add New User": the form's create_user, with the role picked.
PanelCreateUser(s) ==
    /\ admin_required(session[s])
    /\ \E email \in Emails, password \in Passwords, salt \in Salts,
          name \in Names, role \in Roles, f \in F :
        LET r == create_user(users, seq, access_logs, email, password,
                             salt, name, role, f)
        IN  /\ PageStore(r, f)
            /\ last' = Call("panel_create_user", f, r.out)
            /\ UNCHANGED <<lock, call, session>>

\* "Edit User": update_user with the form's name, phone and address.
PanelEditUser(s) ==
    /\ admin_required(session[s])
    /\ \E selected \in DOMAIN users, name \in Names, f \in F :
        LET r == update_user(users, seq, access_logs, selected, name, f)
        IN  /\ PageStore(r, f)
            /\ last' = Call("panel_edit_user", f, r.out)
            /\ UNCHANGED <<lock, call, session>>

\* "Toggle Active Status": the selected account, whoever it is, gets the
\* status it does not have.
PanelToggleActiveStatus(s) ==
    /\ admin_required(session[s])
    /\ \E selected \in DOMAIN users, f \in F :
        LET r == toggle_user_active_status(users, seq, access_logs, selected,
                                           ~users[selected].is_active, f)
        IN  /\ PageStore(r, f)
            /\ last' = Call("panel_toggle_active_status", f, r.out)
            /\ UNCHANGED <<lock, call, session>>

\* The panel's change_user_password: the store's method and, when it
\* succeeds, a PASSWORD_RESET row for the admin.
panel_change_user_password(us, sq, lg, selected, current, new_password, salt, f) ==
    LET r == change_user_password(us, sq, lg, selected, new_password, salt, f)
    IN  IF r.out.ok
        THEN [r EXCEPT !.logs = log_action(r.logs, current, "PASSWORD_RESET",
                                           FALSE).logs]
        ELSE r

\* "Reset Password".
PanelResetPassword(s) ==
    /\ admin_required(session[s])
    /\ \E selected \in DOMAIN users, new_password \in Passwords,
          salt \in Salts, f \in F :
        LET r == panel_change_user_password(users, seq, access_logs, selected,
                                            session[s].user.id, new_password,
                                            salt, f)
        IN  /\ PageStore(r, f)
            /\ last' = Call("panel_reset_password", f, r.out)
            /\ UNCHANGED <<lock, call, session>>

\* A page wrapped by login_required or by admin_required is opened: its
\* body runs (True) or the wrapper returns without it.
VisitPage(s) ==
    /\ \E decorator \in {"login_required", "admin_required"} :
         last' = PageCall(decorator, s,
                          Return(IF decorator = "login_required"
                                 THEN login_required(session[s])
                                 ELSE admin_required(session[s]), "body"))
    /\ UNCHANGED <<users, seq, access_logs, lock, call, session, storage, api>>

\* ------------------------------------------- create_user, step by step
\* Two sessions run create_user at once, each on its own connection.  The
\* INSERT needs SQLite's write lock: it waits while another connection
\* holds it, and gives up with OperationalError (database is locked) when
\* the busy timeout runs out.

\* A store that lets writers overlap.
NoWriteLock(lk, s) == TRUE

\* The INSERT of session s finds the write lock free.
WriteLockFree(lk, s) == lk = None

\* hashpw, connect, cursor: the call is under way.
CreateBegin(s) ==
    /\ call[s].pc \in {"idle", "done"}
    /\ \E email \in Emails, password \in Passwords, salt \in Salts,
          name \in Names :
         call' = [call EXCEPT ![s] =
                    [pc |-> "insert", email |-> email,
                     row |-> NewRow(0, email, HashPw(password, salt), name, "user"),
                     out |-> Return(TRUE, None)]]
    /\ UNCHANGED <<users, seq, access_logs, lock, session, last, storage, api>>

\* cursor.execute(INSERT ...) with the lock free: IntegrityError ends the
\* call; otherwise the row waits for the commit, the lock is held.
CreateInsert(s) ==
    /\ call[s].pc = "insert"
    /\ WriteLockFree(lock, s)
    /\ LET c   == call[s]
           ins == InsertUser(users, seq, c.email, c.row.password, c.row.name,
                             c.row.role, "none")
       IN  IF ins.out.kind = "raise"
           THEN /\ call' = [call EXCEPT ![s] =
                              [c EXCEPT !.pc = "done", !.row = NoRow,
                                        !.out = create_user_except(ins.out)]]
                /\ last' = Call("create_user", "none", create_user_except(ins.out))
                /\ UNCHANGED lock
           ELSE /\ ins.row.id <= MaxUsers
                /\ call' = [call EXCEPT ![s] = [c EXCEPT !.pc = "commit",
                                                         !.row = ins.row]]
                /\ lock' = s
                /\ UNCHANGED last
    /\ UNCHANGED <<users, seq, access_logs, session, storage, api>>

\* cursor.execute(INSERT ...) with the lock held elsewhere until the busy
\* timeout: OperationalError, caught by except Exception.
CreateLocked(s) ==
    /\ call[s].pc = "insert"
    /\ ~WriteLockFree(lock, s)
    /\ LET out == create_user_except(Raise("OperationalError"))
       IN  /\ call' = [call EXCEPT ![s] =
                         [call[s] EXCEPT !.pc = "done", !.row = NoRow, !.out = out]]
           /\ last' = Call("create_user", "none", out)
    /\ UNCHANGED <<users, seq, access_logs, lock, session, storage, api>>

\* user_id = cursor.lastrowid; conn.commit(); conn.close()
CreateCommit(s) ==
    /\ call[s].pc = "commit"
    /\ users' = Put(users, call[s].row.id, call[s].row)
    /\ seq' = call[s].row.id
    /\ lock' = IF lock = s THEN None ELSE lock
    /\ call' = [call EXCEPT ![s].pc = "log"]
    /\ UNCHANGED <<access_logs, session, last, storage, api>>

\* self.log_action(user_id, "USER_SIGNUP", ...); return True, "User created
\* successfully"
CreateLog(s) ==
    /\ call[s].pc = "log"
    /\ Len(access_logs) < MaxLog
    /\ LET l   == log_action(access_logs, call[s].row.id, "USER_SIGNUP", FALSE)
           out == Return(TRUE, "User created successfully")
       IN  /\ access_logs' = l.logs
           /\ call' = [call EXCEPT ![s].pc = "done", ![s].out = out]
           /\ last' = Call("create_user", "none", out)
    /\ UNCHANGED <<users, seq, lock, session, storage, api>>

\* ------------------------------------------------- the predictor's methods
\* The classifier's answers the model follows: predict_proba in hundredths,
\* predict as the class.
ModelProbabilities == {MediumThreshold, HighThreshold + 1}

CreateFeatureArray ==
    /\ last.op = "request"
    /\ last' = PredictorCall("create_feature_array", last.args,
                             create_feature_array(api, last.args))
    /\ UNCHANGED <<users, seq, access_logs, lock, call, session, storage, api>>

Predict ==
    /\ last.op = "request"
    /\ \E probability \in ModelProbabilities, prediction \in {0, 1} :
         last' = PredictorCall("predict", last.args,
                               predict(api, last.args, probability, prediction))
    /\ UNCHANGED <<users, seq, access_logs, lock, call, session, storage, api>>

GetRiskLevel ==
    /\ last.op = "request"
    /\ last' = PredictorCall("_get_risk_level", last.args,
                             get_risk_level(last.args))
    /\ UNCHANGED <<users, seq, access_logs, lock, call, session, storage, api>>

\* ---------------------------------------------------------------- training
\* config.py: the columns of the feature set, numeric then categorical.
NUMERICAL_FEATURES ==
    <<"Latitude", "Longitude", "Beat", "District", "Ward",
      "Community Area", "Hour", "DayOfWeek", "Month", "Year">>

CATEGORICAL_FEATURES == <<"Location_Description_Clean", "TimeOfDay", "Season">>

\* A create_feature_set that puts the categorical columns first.
features_categorical_first(columns) ==
    LET InData(f) == f \in columns
    IN  SelectSeq(CATEGORICAL_FEATURES \o NUMERICAL_FEATURES, InData)

\* create_feature_set: features = [f for f in NUMERICAL_FEATURES +
\* CATEGORICAL_FEATURES if f in df.columns]; X = df[features].
features(columns) ==
    LET InData(f) == f \in columns
    IN  SelectSeq(NUMERICAL_FEATURES \o CATEGORICAL_FEATURES, InData)

\* preprocess_features and the trainer: an encoder for each categorical
\* column of X, a scaler and a classifier fitted on the columns of X.  The
\* means are the same ones whatever the data.
fit(columns) ==
    LET X == features(columns)
    IN  [model |-> [n_features_in_ |-> Len(X)],
         feature_scaler |->
             [loaded |-> TRUE, n_features_in_ |-> Len(X),
              mean_ |-> [i \in 1..Len(X) |-> FittedScaler.mean_[1]]],
         label_encoders |->
             [f \in {CATEGORICAL_FEATURES[i] : i \in 1..Len(CATEGORICAL_FEATURES)}
                      \cap columns |-> classes_(f)],
         expected_features |-> expected_features]

\* train_model.py's main() over a data file with these columns, and the
\* pages' load_models() of what it saved.
TrainAndLoad ==
    /\ last.op = "request"
    /\ last' = PredictorCall("create_feature_set", last.args,
                             features(last.args))
    /\ api' = fit(last.args)
    /\ UNCHANGED <<users, seq, access_logs, lock, call, session, storage>>

\* ------------------------------------------- predict on a shared adapter
\* The dicts the sessions pass while they share one adapter.
SharedRequests ==
    {NotADict, Dict(<<>>), Request(Features, <<>>, FALSE, FALSE)}
      \cup {Request(Features, [k \in {feature} |-> Str("UNSEEN")], FALSE, FALSE) :
              feature \in CategoricalFeatures}

\* A predict in flight: where it is, its argument, its local
\* features_array, the classifier's answers, what it returned.
PredictCall(pc, args, X, probability, prediction, out) ==
    [pc |-> pc, args |-> args, X |-> X, probability |-> probability,
     prediction |-> prediction, out |-> out]

\* A predict whose encoders learn: a category they were not fitted on is
\* added to their classes_.
self_learning(a, features_dict) ==
    [a EXCEPT !.label_encoders =
        [feature \in DOMAIN a.label_encoders |->
            IF /\ features_dict.type = "dict"
               /\ Has(features_dict, feature)
               /\ transform(a.label_encoders[feature],
                            Get(features_dict, feature)).exc # None
            THEN Append(a.label_encoders[feature],
                        Get(features_dict, feature).text)
            ELSE a.label_encoders[feature]]]

\* self after a step of predict: no statement of predict,
\* create_feature_array or _encode_categorical_value assigns an attribute.
self_after(a, features_dict) == a

\* predict is entered with a dict.
PredictBegin(s) ==
    /\ call[s].pc \in {"idle", "done"}
    /\ \E features_dict \in SharedRequests :
         call' = [call EXCEPT ![s] =
                    PredictCall("build", features_dict,
                                [exc |-> None, value |-> <<>>], 0, 0,
                                Error(None))]
    /\ UNCHANGED <<users, seq, access_logs, lock, session, last, storage, api>>

\* create_feature_array and feature_scaler.transform; an exception takes
\* predict to its except clause.
PredictBuild(s) ==
    /\ call[s].pc = "build"
    /\ LET built  == create_feature_array(api, call[s].args)
           scaled == IF built.exc # None \/ ~api.feature_scaler.loaded
                     THEN built
                     ELSE scaler_transform(api.feature_scaler, built.value)
       IN  call' = [call EXCEPT ![s] =
                      IF scaled.exc # None
                      THEN [@ EXCEPT !.pc = "done",
                                     !.out = predict_except(scaled)]
                      ELSE [@ EXCEPT !.pc = "invoke", !.X = scaled]]
    /\ api' = self_after(api, call[s].args)
    /\ UNCHANGED <<users, seq, access_logs, lock, session, last, storage>>

\* model.predict_proba, model.predict, _get_risk_level, return.
PredictInvoke(s) ==
    /\ call[s].pc = "invoke"
    /\ \E probability \in ModelProbabilities, prediction \in {0, 1} :
         call' = [call EXCEPT ![s] =
                    [@ EXCEPT !.pc = "done",
                              !.probability = probability,
                              !.prediction = prediction,
                              !.out = predict_except(
                                  IF ~Accepts(api.model.n_features_in_,
                                              call[s].X.value)
                                  THEN [exc |-> "ValueError", value |-> <<>>]
                                  ELSE [exc |-> None,
                                        value |-> Success(prediction, probability,
                                                  get_risk_level(probability),
                                                  api.expected_features,
                                                  call[s].X.value)])]]
    /\ api' = self_after(api, call[s].args)
    /\ UNCHANGED <<users, seq, access_logs, lock, session, last, storage>>

\* app.py, show_prediction_page: the page's own words for the probability.
PageThreshold == 30

\* st.metric(..., delta=...)
delta(probability) ==
    IF probability > HighThreshold THEN "High"
    ELSE IF probability > PageThreshold THEN "Medium"
    ELSE "Low"

\* "Interpretation & Insights"
interpretation(probability) ==
    IF probability < PageThreshold THEN "Low"
    ELSE IF probability < HighThreshold THEN "Medium"
    ELSE "High"

\* The page shows a success result of predict with this probability.
ShowPredictionPage ==
    /\ last.op = "request"
    /\ last' = PredictorCall("show_prediction_page", last.args,
                             [risk_level |-> get_risk_level(last.args),
                              delta |-> delta(last.args),
                              interpretation |-> interpretation(last.args)])
    /\ UNCHANGED <<users, seq, access_logs, lock, call, session, storage, api>>

\* ------------------------------------------------------ specifications
\* The store's methods, called by anyone with any arguments.
NextStore ==
    \/ InitDatabase
    \/ CreateUser
    \/ AuthenticateUser
    \/ UpdateUser
    \/ DeleteUser
    \/ ToggleUserActiveStatus
    \/ ChangeUserPassword

\* The store over a storage layer that raises nothing.
Spec == Init /\ [][NextStore]_vars

\* The store over a storage layer that may raise at any statement of a call.
SpecFaults == InitFaults /\ [][NextStore]_vars

\* The admin panel's list of users, over accounts created at any time.
NextList ==
    \/ InitDatabase
    \/ ListCreateUser
    \/ DeleteUser
    \/ ToggleUserActiveStatus
    \/ GetAllUsers

SpecList == Init /\ [][NextList]_vars

\* The predictor, called once with each dict.
NextPredict ==
    \/ CreateFeatureArray
    \/ Predict

SpecPredict == InitPredict /\ [][NextPredict]_vars

\* Training over a data file with any of the columns; it has a categorical
\* one, or no encoders are saved and load_models() has nothing to load.
InitTrain ==
    /\ InitTables
    /\ storage = "healthy"
    /\ api = DeployedApi
    /\ last \in {PredictorCall("request", columns, <<>>) :
                   columns \in {c \in SUBSET Features :
                                  c \cap CategoricalFeatures # {}}}

NextTrain == TrainAndLoad

SpecTrain == InitTrain /\ [][NextTrain]_vars

\* Sessions calling predict on one adapter at the same time.
NextShared ==
    \/ \E s \in Sessions : PredictBegin(s)
    \/ \E s \in Sessions : PredictBuild(s)
    \/ \E s \in Sessions : PredictInvoke(s)

InitShared ==
    /\ InitTables
    /\ storage = "healthy"
    /\ last = NoCall
    /\ api \in Apis

SpecShared == InitShared /\ [][NextShared]_vars

\* _get_risk_level, called once with each probability, by itself or for
\* the prediction page.
NextRisk ==
    \/ GetRiskLevel
    \/ ShowPredictionPage

SpecRisk == InitRisk /\ [][NextRisk]_vars

\* The pages, each run by a browser session.
NextPages ==
    \/ \E s \in Sessions : SignUp(s)
    \/ \E s \in Sessions : Login(s)
    \/ \E s \in Sessions : Logout(s)
    \/ \E s \in Sessions : PanelDeleteUser(s)

SpecPages == Init /\ [][NextPages]_vars

\* The pages and the admin panel, each run by a browser session.
NextPanel ==
    \/ \E s \in Sessions : SignUp(s)
    \/ \E s \in Sessions : Login(s)
    \/ \E s \in Sessions : Logout(s)
    \/ \E s \in Sessions : UpdateProfile(s)
    \/ \E s \in Sessions : PanelCreateUser(s)
    \/ \E s \in Sessions : PanelEditUser(s)
    \/ \E s \in Sessions : PanelToggleActiveStatus(s)
    \/ \E s \in Sessions : PanelResetPassword(s)
    \/ \E s \in Sessions : PanelDeleteUser(s)
    \/ \E s \in Sessions : VisitPage(s)

SpecPanel == Init /\ [][NextPanel]_vars

\* Sessions running create_user at the same time.
NextRace ==
    \/ \E s \in Sessions : CreateBegin(s)
    \/ \E s \in Sessions : CreateInsert(s)
    \/ \E s \in Sessions : CreateLocked(s)
    \/ \E s \in Sessions : CreateCommit(s)
    \/ \E s \in Sessions : CreateLog(s)

SpecRace == Init /\ [][NextRace]_vars

\* ================================================================ claims
\* The rows of us that carry this email.
RowsOf(us, email) == {i \in DOMAIN us : us[i].email = email}

IsPrefix(a, b) == Len(a) <= Len(b) /\ SubSeq(b, 1, Len(a)) = a

LoginEntry(id)  == [user_id |-> id, action |-> "USER_LOGIN"]

\* C1: in every reachable state of the store, whatever create_user,
\* update_user, toggle_user_active_status, change_user_password and
\* delete_user calls led to it, no two rows of users have the same email.
C1_EmailUnique ==
    \A i, j \in DOMAIN users : users[i].email = users[j].email => i = j

\* A second create_user with an email in use was turned away and both
\* accounts are there.
C1_Witness ==
    /\ last.op = "create_user"
    /\ last.out = Return(FALSE, "Email already exists")
    /\ Cardinality(DOMAIN users) = 2

\* C2: for every email that no row of users carries and every password
\* and name, create_user followed at once by authenticate_user with the same
\* email and password succeeds, and the record returned carries that email.
C2_CreateThenAuthenticate ==
    \A email \in Emails, password \in Passwords, salt \in Salts,
       name \in Names, role \in Roles, t \in Times :
        ~EmailTaken(users, email) =>
            LET c == create_user(users, seq, access_logs, email, password,
                                 salt, name, role, "none")
                a == authenticate_user(c.users, c.seq, c.logs, t, email,
                                       password, "none")
            IN  /\ c.out = Return(TRUE, "User created successfully")
                /\ a.out.ok
                /\ a.out.user.email = email
                /\ a.out.user.id = c.seq

\* create_user and then authenticate_user ran, for a new account.
C2_Witness ==
    /\ last.op = "authenticate_user"
    /\ last.out.ok
    /\ last.out.user.email # AdminEmail
    /\ access_logs = <<[user_id |-> last.out.user.id, action |-> "USER_SIGNUP"],
                       LoginEntry(last.out.user.id)>>

\* Why authenticate_user turns a login away, if it does.
FailureCause(us, email, password) ==
    IF RowsOf(us, email) = {} THEN "no account"
    ELSE IF SelectActive(us, email) = {} THEN "inactive"
    ELSE IF \E i \in SelectActive(us, email) : ~CheckPw(password, us[i].password)
    THEN "mismatch"
    ELSE "none"

\* C3: authenticate_user returns one and the same failure value for the
\* three causes of failure (no account with the email, account inactive,
\* password not matching the hash) and changes nothing, so that what it
\* returns does not tell the causes apart.
C3_SameFailure ==
    \A email \in Emails, password \in Passwords, t \in Times :
        LET a == authenticate_user(users, seq, access_logs, t, email,
                                   password, "none")
        IN  FailureCause(users, email, password) # "none" =>
                a = Result(users, seq, access_logs,
                           Return(FALSE, "Invalid email or password"))

\* A login was turned away in a state where no email has an active
\* account: one account is inactive and it is tried with its own password,
\* the other email has no account.
C3_Witness ==
    /\ last.op = "authenticate_user"
    /\ last.out = Return(FALSE, "Invalid email or password")
    /\ \A e \in Emails : SelectActive(users, e) = {}
    /\ \E e1, e2 \in Emails, p \in Passwords :
        /\ FailureCause(users, e1, p) = "no account"
        /\ FailureCause(users, e2, p) = "inactive"
        /\ \E i \in RowsOf(users, e2) : CheckPw(p, users[i].password)

\* What authenticate_user says of a successful login with these arguments,
\* but for the audit row: the row it matched, and the timestamp written.
AuthMatched(r, email, password, t) ==
    \E i \in DOMAIN users :
        /\ users[i].email = email
        /\ users[i].is_active
        /\ CheckPw(password, users[i].password)
        /\ r.out.user.id = i
        /\ r.users = [users EXCEPT ![i].last_login = t]

\* C4, as stated: authenticate_user succeeds only when a row with the
\* email exists, is active and its hash verifies the password; on success
\* last_login is updated and a login audit row is appended.
C4_AsStated ==
    \A email \in Emails, password \in Passwords, t \in Times, f \in F :
        LET r == authenticate_user(users, seq, access_logs, t, email,
                                   password, f)
        IN  r.out.ok =>
                /\ AuthMatched(r, email, password, t)
                /\ r.logs = Append(access_logs, LoginEntry(r.out.user.id))

\* C4, amended: authenticate_user succeeds only when a row with the email
\* exists, is active and its hash verifies the password; on success
\* last_login is updated, and a login audit row is appended unless the
\* insert of that row fails, in which case the login still succeeds and
\* access_logs is left as it was.
C4_Amended ==
    \A email \in Emails, password \in Passwords, t \in Times, f \in F :
        LET r == authenticate_user(users, seq, access_logs, t, email,
                                   password, f)
        IN  r.out.ok =>
                /\ AuthMatched(r, email, password, t)
                /\ r.logs = IF f = "log" THEN access_logs
                            ELSE Append(access_logs, LoginEntry(r.out.user.id))

\* A login succeeded and stamped last_login while its audit insert failed.
C4_Witness ==
    /\ last.op = "authenticate_user"
    /\ last.fault = "log"
    /\ last.out.ok
    /\ users[last.out.user.id].last_login \in Times
    /\ \A k \in 1..Len(access_logs) : access_logs[k].action # "USER_LOGIN"

\* C5: create_user with an email that a row already carries fails with
\* "Email already exists" and leaves that row as it was: name and password
\* hash stay those of the first creation (and nothing else changes).
C5_DuplicateEmail ==
    \A email \in Emails, password \in Passwords, salt \in Salts,
       name \in Names, role \in Roles :
        EmailTaken(users, email) =>
            create_user(users, seq, access_logs, email, password, salt,
                        name, role, "none")
              = Result(users, seq, access_logs,
                       Return(FALSE, "Email already exists"))

\* An account made by create_user met a second create_user of its email.
C5_Witness ==
    /\ last.op = "create_user"
    /\ last.out = Return(FALSE, "Email already exists")
    /\ \E i \in DOMAIN users :
        /\ users[i].email # AdminEmail
        /\ access_logs = <<[user_id |-> i, action |-> "USER_SIGNUP"]>>

\* C6: when two sessions run create_user at once with the same email,
\* whatever the order of their steps, at most one of the two calls reports
\* success, and once both have returned exactly one row carries the email.
C6_OneWinner ==
    \A s1, s2 \in Sessions :
        (/\ s1 # s2
         /\ call[s1].email = call[s2].email
         /\ call[s1].pc = "done" /\ call[s2].pc = "done") =>
                /\ ~(call[s1].out.ok /\ call[s2].out.ok)
                /\ Cardinality(RowsOf(users, call[s1].email)) = 1

\* Both calls have returned: one created the account, the other ran into
\* the write lock the first one held.
C6_Witness ==
    \E s1, s2 \in Sessions :
        /\ s1 # s2
        /\ call[s1].pc = "done" /\ call[s2].pc = "done"
        /\ call[s1].email = call[s2].email
        /\ call[s1].out = Return(TRUE, "User created successfully")
        /\ call[s2].out = Return(FALSE, "Error creating user")

\* C7: access_logs is append-only: no method of the store, delete_user of
\* the account a row refers to included, removes or changes a row that is
\* there, so the rows of any state are all there, unchanged, in every
\* later state.
C7_AppendOnly == [][IsPrefix(access_logs, access_logs')]_vars

\* An account was deleted and the audit row of its signup is still there.
C7_Witness ==
    /\ last.op = "delete_user"
    /\ last.out.ok
    /\ \E k \in 1..Len(access_logs) :
        /\ access_logs[k].action = "USER_SIGNUP"
        /\ access_logs[k].user_id \notin DOMAIN users

\* C8: no delete of the admin panel removes the account of the admin who
\* runs it: when the selected id is the id of the acting session's user,
\* delete_user is not called (users and access_logs stay as they are), and
\* after any delete of the panel the acting admin's row is still there.
C8_NoSelfDelete ==
    [][\A s \in Sessions :
         LET current == session[s].user.id
         IN  /\ (admin_required(session[s]) =>
                  panel_delete(users, seq, access_logs, current, current, "none")
                    = Result(users, seq, access_logs,
                             Return(FALSE, "You cannot delete your own account!")))
             /\ ((PanelDeleteUser(s) /\ current \in DOMAIN users) =>
                  (current \in DOMAIN users' /\ users'[current] = users[current]))
      ]_vars

\* An admin picked their own account in the panel and was refused.
C8_Witness ==
    /\ last.op = "panel_delete_user"
    /\ last.out = Return(FALSE, "You cannot delete your own account!")
    /\ \E s \in Sessions :
        admin_required(session[s]) /\ session[s].user.id \in DOMAIN users

\* C9: a failure of the audit insert never changes what the primary
\* operation does: create_user and authenticate_user return the same
\* result and leave the same users table whether log_action fails or not.
C9_LogFailureHarmless ==
    \A email \in Emails, password \in Passwords, salt \in Salts,
       name \in Names, role \in Roles, t \in Times :
        LET c0 == create_user(users, seq, access_logs, email, password,
                              salt, name, role, "none")
            c1 == create_user(users, seq, access_logs, email, password,
                              salt, name, role, "log")
            a0 == authenticate_user(users, seq, access_logs, t, email,
                                    password, "none")
            a1 == authenticate_user(users, seq, access_logs, t, email,
                                    password, "log")
        IN  /\ c1.out = c0.out /\ c1.users = c0.users /\ c1.seq = c0.seq
            /\ a1.out = a0.out /\ a1.users = a0.users /\ a1.seq = a0.seq

\* create_user made an account although its audit insert failed.
C9_Witness ==
    /\ last.op = "create_user"
    /\ last.fault = "log"
    /\ last.out = Return(TRUE, "User created successfully")
    /\ Cardinality(DOMAIN users) = 2
    /\ access_logs = <<>>

\* C10, as stated: every method (create_user, authenticate_user,
\* update_user, toggle_user_active_status, change_user_password,
\* delete_user) turns an exception of the storage layer at any of its
\* steps into (False, message) and never lets one through to the caller.
C10_AsStated ==
    /\ last.out.kind = "return"
    /\ (last.fault # "none" => ~last.out.ok)

\* C10, amended: no method lets an exception through to the caller; an
\* exception of its own statement or commit turns into (False, message);
\* an exception of the audit insert
\* made by log_action is dropped there, and the method returns what it
\* returns when the insert works.
C10_Amended ==
    /\ last.out.kind = "return"
    /\ (last.fault \in {"db", "commit"} =>
           ~last.out.ok /\ last.out.msg # None)
    /\ (last.fault = "log" =>
           last.out.msg \notin {"Error creating user", "Authentication error",
                                "Error updating profile", "Error deleting user",
                                "Error updating user status",
                                "Error changing password"})

\* A method met an exception of its statement and reported it as a failure.
C10_Witness ==
    /\ storage = "failed"
    /\ last.fault = "db"
    /\ last.out = Return(FALSE, "Error deleting user")

\* C11, as stated: each successful login through login_user appends
\* exactly one audit row, with the login action, for the account that
\* logged in.
C11_OneLoginRow ==
    \A email \in Emails, password \in Passwords, t \in Times :
        LET r == login_user(users, seq, access_logs, t, email, password,
                            "none", "none")
        IN  r.out.ok =>
                r.logs = Append(access_logs, LoginEntry(r.out.user.id))

\* What login_user does append: the row of authenticate_user and a second
\* one of its own.
C11_TwoLoginRows ==
    \A email \in Emails, password \in Passwords, t \in Times :
        LET r == login_user(users, seq, access_logs, t, email, password,
                            "none", "none")
        IN  r.out.ok =>
                r.logs = access_logs \o <<LoginEntry(r.out.user.id),
                                           LoginEntry(r.out.user.id)>>

\* The calls C12 is about, each with the action tag of its audit row:
\* every way to call the four mutations and create_user in this state.
MutationCalls(f) ==
    {[r |-> update_user(users, seq, access_logs, id, name, f),
      action |-> "PROFILE_UPDATE"] : id \in Ids, name \in Names \cup {None}}
    \cup
    {[r |-> toggle_user_active_status(users, seq, access_logs, id, b, f),
      action |-> "USER_STATUS_CHANGE"] : id \in Ids, b \in BOOLEAN}
    \cup
    {[r |-> change_user_password(users, seq, access_logs, id, p, salt, f),
      action |-> "PASSWORD_CHANGE"] :
         id \in Ids, p \in Passwords, salt \in Salts}
    \cup
    {[r |-> delete_user(users, seq, access_logs, id, a, f),
      action |-> "USER_DELETED"] : id \in Ids, a \in Ids}
    \cup
    {[r |-> create_user(users, seq, access_logs, e, p, salt, n, role, f),
      action |-> "USER_SIGNUP"] :
         e \in Emails, p \in Passwords, salt \in Salts, n \in Names,
         role \in Roles}

\* The log after the call is the log before it and one row of this action.
OneRowAppended(logs, action) ==
    /\ Len(logs) = Len(access_logs) + 1
    /\ SubSeq(logs, 1, Len(access_logs)) = access_logs
    /\ logs[Len(logs)].action = action

\* C12, as stated: every update_user, toggle_user_active_status,
\* change_user_password and delete_user call that is applied to the store
\* appends an audit row with the action tag of that operation, and a
\* successful create_user appends exactly one USER_SIGNUP row.
C12_AsStated ==
    \A f \in F : \A c \in MutationCalls(f) :
        c.r.out.ok => OneRowAppended(c.r.logs, c.action)

\* C12, amended: every such call that is applied to the store appends one
\* audit row with the action tag of its operation unless the insert of
\* that row fails; then the call still succeeds and access_logs is left as
\* it was.
C12_Amended ==
    \A f \in F : \A c \in MutationCalls(f) :
        c.r.out.ok =>
            IF f = "log" THEN c.r.logs = access_logs
            ELSE OneRowAppended(c.r.logs, c.action)

\* A status change was applied and its audit row written.
C12_Witness ==
    /\ last.op = "toggle_user_active_status"
    /\ last.fault = "none"
    /\ last.out = Return(TRUE, "User deactivated successfully")
    /\ access_logs = <<[user_id |-> 1, action |-> "USER_STATUS_CHANGE"]>>
    /\ ~users[1].is_active

\* The ids handed out so far, as the tables still show them: the rows
\* that are there and the signups on record.
IdsOnRecord ==
    DOMAIN users
      \cup {access_logs[k].user_id :
              k \in {j \in 1..Len(access_logs) :
                       access_logs[j].action = "USER_SIGNUP"}}

\* What a successful create_user of this state does: the id of the row it
\* adds is new, above every id handed out before.
CreatesFreshId(c) ==
    /\ c.seq = seq + 1
    /\ DOMAIN c.users = DOMAIN users \cup {c.seq}
    /\ c.seq \notin IdsOnRecord
    /\ \A i \in IdsOnRecord : i < c.seq

\* C13, as stated: a successful create_user returns the id of the account
\* it created, and that id differs from the id of every account created
\* before it, those since deleted included.
C13_AsStated ==
    \A email \in Emails, password \in Passwords, salt \in Salts,
       name \in Names, role \in Roles :
        LET c == create_user(users, seq, access_logs, email, password,
                             salt, name, role, "none")
        IN  c.out.ok => (c.out.user.id = c.seq /\ CreatesFreshId(c))

\* C13, amended: a successful create_user returns (True, "User created
\* successfully") and no id; the account it created has an id that differs
\* from the id of every account created before it, those since deleted
\* included (AUTOINCREMENT: one more than the largest id ever handed out).
C13_Amended ==
    /\ \A i \in IdsOnRecord : i <= seq
    /\ \A email \in Emails, password \in Passwords, salt \in Salts,
          name \in Names, role \in Roles :
        LET c == create_user(users, seq, access_logs, email, password,
                             salt, name, role, "none")
        IN  c.out.ok =>
                /\ c.out = Return(TRUE, "User created successfully")
                /\ CreatesFreshId(c)

\* The first account was deleted and the next create_user did not hand
\* its id out again.
C13_Witness ==
    /\ last.op = "create_user"
    /\ last.out = Return(TRUE, "User created successfully")
    /\ \E k \in 1..Len(access_logs) : access_logs[k].action = "USER_DELETED"
    /\ \A i \in DOMAIN users : i = seq /\ i > 1
    /\ DOMAIN users # {}

\* C14: two get_all_users calls in a row, nothing written in between,
\* return the same list in the same order, latest created_at first, one
\* tuple per row of users; the call changes no row of users and no row of
\* access_logs.
C14_ListStable ==
    LET r1 == get_all_users(users, seq, access_logs, "none")
        r2 == get_all_users(r1.users, r1.seq, r1.logs, "none")
        rows == r1.out.rows
    IN  /\ r2.out = r1.out
        /\ r1.users = users /\ r2.users = users
        /\ r1.logs = access_logs /\ r2.logs = access_logs
        /\ Len(rows) = Cardinality(DOMAIN users)
        /\ \A i \in DOMAIN users :
             \E k \in 1..Len(rows) : rows[k] = UserTuple(users[i])
        /\ \A k \in 1..Len(rows) - 1 :
             rows[k].created_at >= rows[k + 1].created_at

\* The list came back with the later account first, ahead of the account
\* of the smaller id.
C14_Witness ==
    /\ last.op = "get_all_users"
    /\ Len(last.out.rows) = 2
    /\ last.out.rows[1].created_at > last.out.rows[2].created_at
    /\ last.out.rows[1].id > last.out.rows[2].id
    /\ last.out = get_all_users(users, seq, access_logs, "none").out

\* The dict with its keys in the order of expected_features and the keys
\* create_feature_array does not know left out.
InExpectedOrder(features_dict) ==
    LET Given(k) == Has(features_dict, k)
        keys == SelectSeq(expected_features, Given)
    IN  Dict([i \in 1..Len(keys) |-> Item(keys[i], Get(features_dict, keys[i]))])

\* C15: the array create_feature_array builds has exactly 13 slots, and
\* slot i holds the value for the i-th name of expected_features (the
\* number given under that name, the encoder's code of the category given
\* under it, 0 if the name is not a key), whatever the order of the dict's
\* keys and whatever other keys it has.
C15_FixedOrder ==
    (last.op = "create_feature_array" /\ last.args.type = "dict") =>
        LET X == last.out.value
        IN  /\ last.out.exc = None
            /\ Len(X) = 13
            /\ X = create_feature_array(api, InExpectedOrder(last.args)).value
            /\ \A i \in 1..Len(X) :
                 LET feature == expected_features[i]
                     given == Has(last.args, feature)
                     value == Get(last.args, feature)
                 IN  /\ ~given => X[i] = Num(0)
                     /\ (given /\ feature \notin CategoricalFeatures
                               /\ value.kind = "num") => X[i] = value
                     /\ (given /\ feature \in DOMAIN api.label_encoders
                               /\ value.text # "UNSEEN") =>
                            /\ X[i].kind = "num"
                            /\ classes_(feature)[X[i].num + 1] = value.text

\* An array was built from a dict that starts with a key the model does
\* not know, goes on with the last expected feature and lacks one.
C15_Witness ==
    /\ last.op = "create_feature_array"
    /\ last.args.type = "dict"
    /\ Len(last.args.items) = 13
    /\ last.args.items[1].key = "Arrest"
    /\ last.args.items[2].key = "Season"
    /\ ~Has(last.args, "Longitude")
    /\ last.out.value[1] = Get(last.args, "Latitude")
    /\ last.out.value[2] = Num(0)
    /\ "Season" \in DOMAIN api.label_encoders
    /\ last.out.value[13] = Num(1)

\* The artifacts take an array of one number per expected feature, and
\* every category the dict gives has an encoder to turn it into a number.
Usable(a, features_dict) ==
    /\ features_dict.type = "dict"
    /\ a.model.n_features_in_ = Len(a.expected_features)
    /\ \A feature \in CategoricalFeatures :
         Has(features_dict, feature) => feature \in DOMAIN a.label_encoders

\* The keys of a success result.
SuccessKeys == {"success", "prediction", "probability", "risk_level",
                "features_used", "feature_values"}

\* C16: for a dict that lacks any of the expected features, predict returns
\* a success result, no error result and no exception, and in the array
\* create_feature_array builds the slot of every feature that is not a key
\* is 0.  (The dict's categories have encoders and the artifacts take 13
\* columns.)
C16_MissingDefaultsToZero ==
    (/\ last.op = "predict"
     /\ Usable(api, last.args)
     /\ \E feature \in Features : ~Has(last.args, feature)) =>
        LET X == create_feature_array(api, last.args)
        IN  /\ DOMAIN last.out = SuccessKeys
            /\ last.out.success
            /\ X.exc = None
            /\ \A i \in 1..Len(expected_features) :
                 ~Has(last.args, expected_features[i]) =>
                     /\ X.value[i] = Num(0)
                     /\ ~api.feature_scaler.loaded =>
                            last.out.feature_values[i] = Num(0)

\* predict succeeded on the empty dict; the scaler moved the thirteen
\* zeros by the means it was fitted with.
C16_Witness ==
    /\ last.op = "predict"
    /\ last.args = Dict(<<>>)
    /\ api.feature_scaler.loaded
    /\ DOMAIN last.out = SuccessKeys
    /\ last.out.success
    /\ last.out.risk_level = "High"
    /\ \A i \in 1..Len(expected_features) :
         last.out.feature_values[i] = Num(0 - api.feature_scaler.mean_[i])

\* The value the dict gives for a feature that has a fitted encoder is not
\* among the classes the encoder was fitted on.
OutOfVocabulary(a, features_dict, feature) ==
    /\ Has(features_dict, feature)
    /\ feature \in DOMAIN a.label_encoders
    /\ \A k \in 1..Len(a.label_encoders[feature]) :
         a.label_encoders[feature][k] # Get(features_dict, feature).text

\* C17: for each categorical feature that has a fitted encoder, a value
\* outside the classes it was fitted on is encoded as 0, and predict
\* returns a success result, not an error result.
C17_UnseenCategory ==
    \A feature \in CategoricalFeatures :
        (/\ last.op = "predict"
         /\ Usable(api, last.args)
         /\ OutOfVocabulary(api, last.args, feature)) =>
            /\ DOMAIN last.out = SuccessKeys
            /\ last.out.success
            /\ create_feature_array(api, last.args).value[Position(feature)]
                 = Num(0)
            /\ encode_categorical_value(api, feature,
                                        Get(last.args, feature)) = Ok(Num(0))

\* predict succeeded on a dict whose TimeOfDay the encoder has not seen.
C17_Witness ==
    /\ last.op = "predict"
    /\ last.args.type = "dict"
    /\ OutOfVocabulary(api, last.args, "TimeOfDay")
    /\ Get(last.args, "TimeOfDay") = Str("UNSEEN")
    /\ DOMAIN last.out = SuccessKeys
    /\ last.out.success
    /\ ~api.feature_scaler.loaded
    /\ last.out.feature_values[Position("TimeOfDay")] = Num(0)
    /\ last.out.feature_values[Position("Season")] = Num(1)

\* C18: predict never raises.  It returns either a success result holding
\* prediction, probability, risk_level, the feature order used and the
\* final array, or an error result holding the message of the exception;
\* an exception of the scaler or of the classifier gives the error result;
\* no result has keys of both.
C18_PredictNeverRaises ==
    last.op = "predict" =>
        /\ DOMAIN last.out \in {SuccessKeys, {"success", "error"}}
        /\ last.out.success <=> DOMAIN last.out = SuccessKeys
        /\ last.out.success =>
             /\ last.out.features_used = expected_features
             /\ Len(last.out.feature_values) = Len(expected_features)
             /\ last.out.risk_level = get_risk_level(last.out.probability)
        /\ (last.args.type = "dict"
              /\ api.model.n_features_in_ # Len(expected_features)) =>
             last.out = Error("ValueError")
        /\ last.args.type # "dict" => last.out = Error("AttributeError")

\* The classifier was fitted on other columns than the thirteen: predict
\* answered the form's dict with the error result.
C18_Witness ==
    /\ last.op = "predict"
    /\ last.args = Request(Features, <<>>, FALSE, FALSE)
    /\ api.model.n_features_in_ # Len(expected_features)
    /\ last.out = Error("ValueError")

\* The tiers, from the lowest up.
TierRank(risk_level) ==
    CASE risk_level = "Low" -> 1
      [] risk_level = "Medium" -> 2
      [] risk_level = "High" -> 3

\* C19: _get_risk_level gives every probability in [0, 1] exactly one
\* tier: High above 0.7, otherwise Medium above 0.4, otherwise Low; the
\* tier never goes down as the probability goes up; 0.55 gives Medium.
C19_RiskTiers ==
    /\ \A p \in Probabilities :
         /\ get_risk_level(p) \in {"Low", "Medium", "High"}
         /\ p > 70 => get_risk_level(p) = "High"
         /\ (p <= 70 /\ p > 40) => get_risk_level(p) = "Medium"
         /\ p <= 40 => get_risk_level(p) = "Low"
         /\ \A q \in Probabilities :
              p <= q => TierRank(get_risk_level(p)) <= TierRank(get_risk_level(q))
    /\ get_risk_level(55) = "Medium"
    /\ last.op = "_get_risk_level" =>
         /\ last.out \in {"Low", "Medium", "High"}
         /\ last.out = "High" <=> last.args > 70
         /\ last.out = "Low" <=> last.args <= 40

\* _get_risk_level answered Medium for 0.55.
C19_Witness ==
    /\ last.op = "_get_risk_level"
    /\ last.args = 55
    /\ last.out = "Medium"

\* C20, as stated: a probability equal to a threshold, 0.7 or the lower
\* bound of Medium, gets the higher of the two tiers that meet there.
C20_AsStated ==
    last.op = "_get_risk_level" =>
        /\ last.args = HighThreshold => last.out = "High"
        /\ last.args = MediumThreshold => last.out = "Medium"

\* C20, amended: a probability equal to a threshold gets the lower of the
\* two tiers that meet there (0.7 is Medium, 0.4 is Low); the next
\* hundredth above it gets the higher one.
C20_Amended ==
    /\ last.op = "_get_risk_level" =>
         /\ last.args = HighThreshold => last.out = "Medium"
         /\ last.args = MediumThreshold => last.out = "Low"
         /\ last.args = HighThreshold + 1 => last.out = "High"
         /\ last.args = MediumThreshold + 1 => last.out = "Medium"
    /\ get_risk_level(HighThreshold) = "Medium"
    /\ get_risk_level(MediumThreshold) = "Low"

\* _get_risk_level answered Medium for 0.7.
C20_Witness ==
    /\ last.op = "_get_risk_level"
    /\ last.args = HighThreshold
    /\ last.out = "Medium"

\* The probability above which a binary classifier answers class 1: the
\* class of the larger of the two probabilities.
DecisionThreshold == 50

C21_AnswersPassedThrough ==
    last.op = "predict" =>
        \A probability \in ModelProbabilities, prediction \in {0, 1} :
            LET r == predict(api, last.args, probability, prediction)
            IN  DOMAIN last.out = SuccessKeys =>
                    /\ r.prediction = prediction
                    /\ r.probability = probability
                    /\ r.risk_level = get_risk_level(probability)

\* C22: no step of predict changes the adapter's classifier, scaler,
\* encoders or expected_features, and every predict that returns while
\* others run on the same adapter returns what it returns when run alone
\* with the same dict and the same answers of the classifier.
C22_SharedAdapter ==
    [][/\ api' = api
       /\ \A s \in Sessions :
            call'[s].pc = "done" =>
                call'[s].out = predict(api, call'[s].args,
                                       call'[s].probability,
                                       call'[s].prediction)]_vars

\* One session's predict has returned a success result for a dict with a
\* Season the encoder has not seen, while the other session, with another
\* dict, is between its scaler and its classifier.
C22_Witness ==
    /\ call["s1"].pc = "done"
    /\ call["s2"].pc = "invoke"
    /\ call["s1"].args # call["s2"].args
    /\ OutOfVocabulary(api, call["s1"].args, "Season")
    /\ call["s1"].out.success
    /\ call["s1"].out = predict(api, call["s1"].args, call["s1"].probability,
                                call["s1"].prediction)

C24_Decorators ==
    /\ last.op = "login_required" =>
         (last.out.ok <=> session[last.args].authenticated)
    /\ last.op = "admin_required" =>
         (last.out.ok <=> /\ session[last.args].authenticated
                          /\ session[last.args].user.role = "admin")

\* A session logged in as an account of role user opened an admin page,
\* and the body did not run.
C24_Witness ==
    /\ last.op = "admin_required"
    /\ ~last.out.ok
    /\ session[last.args].authenticated
    /\ session[last.args].user.role = "user"

\* authenticate_user of this email and password succeeds over these tables.
Authenticates(us, sq, lg, email, password) ==
    \A t \in Times :
        authenticate_user(us, sq, lg, t, email, password, "none").out.ok

ActiveAdmins(us) ==
    {i \in DOMAIN us : us[i].role = "admin" /\ us[i].is_active}

\* C26, as stated: after any sequence of actions of the admin panel by
\* authenticated admins (create, edit, toggle active status, reset
\* password, delete) there is an active account of role admin.
C26_AnActiveAdmin == ActiveAdmins(users) # {}

\* What the panel does keep: the account of the admin who acts is not
\* deleted by them, but it is deactivated like any other when they select
\* it.
C26_SelfDeactivation ==
    \A s \in Sessions :
        (admin_required(session[s]) /\ session[s].user.id \in DOMAIN users
           /\ users[session[s].user.id].is_active) =>
            LET current == session[s].user.id
                r == toggle_user_active_status(users, seq, access_logs, current,
                                               ~users[current].is_active, "none")
            IN  /\ r.out.ok
                /\ ~r.users[current].is_active
                /\ ActiveAdmins(users) = {current} => ActiveAdmins(r.users) = {}

\* C27, as stated: for every probability, the tier the prediction page
\* names by itself, in the delta of the metric and in the interpretation,
\* is the risk_level predict returned for that probability.
C27_SameTier ==
    last.op = "show_prediction_page" =>
        /\ last.out.delta = last.out.risk_level
        /\ last.out.interpretation = last.out.risk_level

\* Where the three do agree: everywhere but from 0.3 to 0.4 and at 0.7.
C27_AgreeOutsideTheGaps ==
    last.op = "show_prediction_page" =>
        /\ last.out.delta = last.out.risk_level
             <=> last.args \notin (PageThreshold + 1)..MediumThreshold
        /\ last.out.interpretation = last.out.risk_level
             <=> last.args \notin PageThreshold..MediumThreshold
                                    \cup {HighThreshold}

\* C28: a failed authenticate_user (unknown email, inactive account or
\* wrong password) writes nothing: every account row, last_login included,
\* and the audit log are what they were; the same holds for a failed
\* login_user, which does nothing more than report the failure.
C28_FailedAuthenticateWritesNothing ==
    /\ [](\A email \in Emails, password \in Passwords, t \in Times :
            LET r == authenticate_user(users, seq, access_logs, t, email,
                                       password, "none")
                l == login_user(users, seq, access_logs, t, email, password,
                                "none", "none")
            IN  /\ ~r.out.ok => r.users = users /\ r.logs = access_logs
                                  /\ r.seq = seq
                /\ ~l.out.ok => l.users = users /\ l.logs = access_logs
                /\ r.out.ok <=> \E i \in DOMAIN users :
                                   /\ users[i].email = email
                                   /\ users[i].is_active
                                   /\ CheckPw(password, users[i].password))
    /\ [][last'.op = "authenticate_user" /\ ~last'.out.ok
            => users' = users /\ access_logs' = access_logs]_vars

\* A failed call against a store that holds an inactive account and an
\* active one that has never logged in.
C28_Witness ==
    /\ last.op = "authenticate_user" /\ last.fault = "none"
    /\ ~last.out.ok
    /\ \E i \in DOMAIN users : ~users[i].is_active
    /\ \E i \in DOMAIN users : users[i].is_active /\ users[i].last_login = NULL

\* C29: in every reachable session state authenticated is true exactly when
\* a user record is stored; a successful login_user sets both in one
\* session, logout_user clears both in one session, a failed login_user
\* changes no session.
C29_FlagAndRecord ==
    /\ [](\A s \in Sessions : session[s].authenticated <=> session[s].user # NoUser)
    /\ [][/\ last'.op = "login_user" /\ last'.out.ok =>
               \E s \in Sessions :
                   /\ session[s] = NoSession
                   /\ session' = [session EXCEPT ![s] =
                          [authenticated |-> TRUE, user |-> last'.out.user]]
          /\ last'.op = "login_user" /\ ~last'.out.ok => session' = session
          /\ last'.op = "logout_user" =>
               \E s \in Sessions :
                   /\ session[s].authenticated
                   /\ session' = [session EXCEPT ![s] = NoSession]]_vars

\* A session has logged in and out again: the audit log holds both rows
\* and the session is back to what initialize_session_state made it.
C29_Witness ==
    /\ last.op = "logout_user"
    /\ \A s \in Sessions : session[s] = NoSession
    /\ \E i \in 1..Len(access_logs) : access_logs[i].action = "USER_LOGIN"
    /\ \E i \in 1..Len(access_logs) : access_logs[i].action = "USER_LOGOUT"

\* C30: what a session is was fixed when it logged in.  Whatever happens to
\* the account afterwards (deactivated, deleted, password reset, renamed),
\* an authenticated session stays authenticated with the id, email and role
\* it logged in with and goes on passing login_required, and admin_required
\* if it passed it, until that very session calls logout_user.
C30_SessionOutlivesAccount ==
    [][\A s \in Sessions :
         is_authenticated(session[s]) =>
            \/ /\ last'.op = "logout_user"
               /\ session'[s] = NoSession
               /\ \A o \in Sessions \ {s} : session'[o] = session[o]
            \/ /\ session'[s].authenticated
               /\ session'[s].user.id = session[s].user.id
               /\ session'[s].user.email = session[s].user.email
               /\ session'[s].user.role = session[s].user.role
               /\ login_required(session[s])'
               /\ admin_required(session[s]) => admin_required(session[s])']_vars

\* The admin panel opens for a session whose own account has been
\* deactivated since it logged in.
C30_Witness ==
    /\ last.op = "admin_required" /\ last.out.ok
    /\ admin_required(session[last.args])
    /\ \E i \in DOMAIN users : /\ users[i].id = session[last.args].user.id
                               /\ ~users[i].is_active

====
